---- MODULE Spec2Model ----
(***************************************************************************)
(* Token-verification gateway of papermerge/oidc-app.                      *)
(*                                                                         *)
(*   src/oidc_app/main.py     verify_endpoint, oidc_callback               *)
(*   src/oidc_client/cache.py save_token, get_token (two-key Redis cache)  *)
(*                                                                         *)
(* Every handler is a coroutine: it runs atomically between two `await`s.  *)
(* Each action below is one such atomic stretch of a handler, from one     *)
(* await (a Redis command or an upstream call) to the next or to the       *)
(* return of the response.  Redis expiry is the action Tick.               *)
(***************************************************************************)
EXTENDS Integers, Sequences, FiniteSets, TLC

\* ------------------------------------------------------------------ bounds
\* TTLs (seconds) of the tokens the upstream issues in the model.
ShortTTL == 1
LongTTL == 2
\* Largest TTL the cache harness (SpecCache) saves a token with.
MaxTTL == 2

\* ------------------------------------------------------------- data model
\* Python's None for strings (a missing cookie, no Set-Cookie header).
NoneStr == "None"

\* types.TokenData: the fields save_token / verify_endpoint read.
FieldNames == <<"access_token", "refresh_token", "expires_in", "refresh_expires_in">>

\* Python's None where a TokenData is expected.
NoToken ==
    [access_token |-> NoneStr, refresh_token |-> NoneStr,
     expires_in |-> 0, refresh_expires_in |-> 0]

\* Access tokens (JWT strings) that occur in the model.
AccessTokens == {"a1", "a2"}

\* The tokens the identity provider issues: T1 has the usual shape (access
\* lease shorter than refresh lease), T2 the unusual one.
IssuedTokens ==
    { [access_token |-> "a1", refresh_token |-> "r1",
       expires_in |-> ShortTTL, refresh_expires_in |-> LongTTL],
      [access_token |-> "a2", refresh_token |-> "r2",
       expires_in |-> LongTTL, refresh_expires_in |-> ShortTTL] }

\* token.model_dump(): the dict of the fields, here a sequence of
\* <<name, value>> items in field order.
model_dumpMutDropRefresh(token) ==
    [i \in 1..Len(FieldNames) |->
        <<FieldNames[i],
          IF FieldNames[i] = "refresh_token" THEN "" ELSE token[FieldNames[i]]>>]

model_dump(token) ==
    [i \in 1..Len(FieldNames) |-> <<FieldNames[i], token[FieldNames[i]]>>]

\* value[name] of a dumped dict.
DictGet(value, name) ==
    value[CHOOSE i \in 1..Len(value) : value[i][1] = name][2]

\* types.TokenData(**value): the object built from the keyword arguments.
TokenData(value) ==
    [access_token |-> DictGet(value, "access_token"),
     refresh_token |-> DictGet(value, "refresh_token"),
     expires_in |-> DictGet(value, "expires_in"),
     refresh_expires_in |-> DictGet(value, "refresh_expires_in")]

\* -------------------------------------------------------------- the store
\* Redis key names f"access_{key}" and f"refresh_{key}".
AccessName(key) == <<"access", key>>
RefreshName(key) == <<"refresh", key>>
\* Access tokens only the refresh race (SpecRace) sees issued.
RaceOnlyTokens == {"a3"}
StoreKeys == AccessTokens \cup RaceOnlyTokens
Names == {AccessName(k) : k \in StoreKeys} \cup {RefreshName(k) : k \in StoreKeys}

\* What redis.get returns for a missing key.
NoneValue == <<>>
\* A key that is not in the store.
Absent == [value |-> NoneValue, ttl |-> 0]

\* redis.get(name)
RedisGet(store, name) == store[name].value

\* redis.set(name, value, ex): the key holds value for ex seconds.
RedisSetMutAppend(store, name, value, ex) ==
    [store EXCEPT ![name] = [value |-> store[name].value \o value, ttl |-> ex]]

RedisSet(store, name, value, ex) ==
    [store EXCEPT ![name] = [value |-> value, ttl |-> ex]]

\* One second passes in Redis: every TTL goes down, a key at 0 is removed.
Expire(store) ==
    [n \in DOMAIN store |->
        IF store[n].ttl <= 1 THEN Absent
        ELSE [store[n] EXCEPT !.ttl = @ - 1]]

EmptyStore == [n \in Names |-> Absent]

\* ------------------------------------------------------------- save_token
\* cache.save_token, first await: redis.set(f"access_{key}", value, ex=expires_in)
SaveAccessMutTTL(store, key, token) ==
    RedisSet(store, AccessName(key), model_dump(token), token.refresh_expires_in)

SaveAccessMutName(store, key, token) ==
    RedisSet(store, RefreshName(key), model_dump(token), token.expires_in)

SaveAccess(store, key, token) ==
    RedisSet(store, AccessName(key), model_dump(token), token.expires_in)

\* cache.save_token, second await: redis.set(f"refresh_{key}", value, ex=refresh_expires_in)
SaveRefreshMutName(store, key, token) ==
    RedisSet(store, AccessName(key), model_dump(token), token.refresh_expires_in)

SaveRefresh(store, key, token) ==
    RedisSet(store, RefreshName(key), model_dump(token), token.refresh_expires_in)

\* --------------------------------------------------------------- requests
\* The requests the server handles; each is one run of a handler coroutine.
Requests == {"req1", "req2"}

\* What utils.get_token(request) can return: a token, "" or None.
Credentials == AccessTokens \cup {"", NoneStr}

\* jwt.decode: returns (Valid), raises ExpiredSignatureError (Expired) or
\* another JWTError (Invalid).
SigResults == {"Valid", "Expired", "Invalid"}

VARIABLES
    redis,            \* the Redis store: name -> [value, ttl]
    pc,               \* where each request's coroutine stands
    endpoint,         \* the handler a request runs: "verify" or "callback"
    access_token,     \* verify_endpoint: access_token (the credential)
    sig,              \* verify_endpoint: how jwt.decode ended
    token_data,       \* verify_endpoint: token_data
    access_expired,   \* verify_endpoint: access_expired
    new_token_data,   \* verify_endpoint: new_token_data; oidc_callback: token_data
    response,         \* the response the handler returned
    log,              \* the awaited calls the request made, in order
    cache_pc,         \* cache client: where its save_token / get_token call stands
    saved,            \* cache client: the token of its last save_token call
    since_access,     \* seconds since that call wrote the access-keyed entry
    since_refresh,    \* seconds since that call wrote the refresh-keyed entry
    lookup_key,       \* cache client: the key of the get_token call under way
    looked,           \* cache client: what its last get_token call returned
    seen,             \* latest phase a lookup of saved has returned since the save
    save_result,      \* cache client: how its last save_token call ended
    idem              \* cache client: the store before a repeated save_token call

reqvars == <<pc, endpoint, access_token, sig, token_data, access_expired,
             new_token_data, response, log>>

cachevars == <<cache_pc, saved, since_access, since_refresh, lookup_key, looked, seen,
               save_result, idem>>

NoResponse == [status_code |-> 0, url |-> NoneStr, cookie |-> NoneStr, content |-> ""]

\* RedirectResponse(status_code=307, url=utils.authorize_url())
RedirectToAuthorize ==
    [status_code |-> 307, url |-> "authorize_url", cookie |-> NoneStr, content |-> ""]

\* PlainTextResponse(status_code=500, content=msg)
CorruptionError ==
    [status_code |-> 500, url |-> NoneStr, cookie |-> NoneStr,
     content |-> "cached token differs from original"]

\* result = Response(status_code=200), with result.set_cookie when cookie is set
Result(cookie) ==
    [status_code |-> 200, url |-> NoneStr, cookie |-> cookie, content |-> ""]

\* Entries of log.
GetEvent(name) == [op |-> "get", name |-> name, value |-> NoneValue, ex |-> 0]
SetEvent(name, value, ex) == [op |-> "set", name |-> name, value |-> value, ex |-> ex]
RefreshEvent(token) ==
    [op |-> "refresh", name |-> <<"refresh_token", token.refresh_token>>,
     value |-> NoneValue, ex |-> 0]
SetEventOf(store, name) == SetEvent(name, store[name].value, store[name].ttl)

Logged(r, event) == log' = [log EXCEPT ![r] = Append(@, event)]

Respond(r, resp) ==
    /\ pc' = [pc EXCEPT ![r] = "done"]
    /\ response' = [response EXCEPT ![r] = resp]

Goto(r, label) ==
    /\ pc' = [pc EXCEPT ![r] = label]
    /\ UNCHANGED response

\* The cache client has made no get_token call since its last save_token.
NoLookup ==
    [key |-> NoneStr, data |-> NoToken, expired |-> FALSE,
     since_access |-> 0, since_refresh |-> 0, phase |-> 0, seen |-> 0]

\* The cache client has made no save_token call.  result is "saving" between
\* the two writes, then "ok", "partial" (the second write raised) or "failed"
\* (the first write raised); fresh tells that neither entry of the key was in
\* the store when the call began.
NoSave == [result |-> "none", fresh |-> FALSE]

\* The cache client's last save_token call did not repeat the one before it.
NoRepeat == [first |-> EmptyStore, pending |-> FALSE, repeated |-> FALSE]

Init ==
    /\ redis = EmptyStore
    /\ pc = [r \in Requests |-> "idle"]
    /\ endpoint = [r \in Requests |-> "none"]
    /\ access_token = [r \in Requests |-> NoneStr]
    /\ sig = [r \in Requests |-> "none"]
    /\ token_data = [r \in Requests |-> NoToken]
    /\ access_expired = [r \in Requests |-> FALSE]
    /\ new_token_data = [r \in Requests |-> NoToken]
    /\ response = [r \in Requests |-> NoResponse]
    /\ log = [r \in Requests |-> <<>>]
    /\ cache_pc = "idle"
    /\ saved = NoToken
    /\ since_access = 0
    /\ since_refresh = 0
    /\ lookup_key = NoneStr
    /\ looked = NoLookup
    /\ seen = 0
    /\ save_result = NoSave
    /\ idem = NoRepeat

\* -------------------------------------------------------- verify_endpoint
\* `if not access_token`
Missing(token) == token = NoneStr \/ token = ""

\* `except JWTError`: the handler returns the redirect.
JwtRejectedMutNever(s) == FALSE

JwtRejectedMutExpired(s) == s \in {"Invalid", "Expired"}

JwtRejected(s) == s = "Invalid"

\* Lines 33-58 for a request carrying credential token on which jwt.decode
\* ends as s.
VerifyRequest(r, token, s) ==
    /\ pc[r] = "idle"
    /\ access_token' = [access_token EXCEPT ![r] = token]
    /\ endpoint' = [endpoint EXCEPT ![r] = "verify"]
    /\ IF Missing(token)
       THEN /\ Respond(r, RedirectToAuthorize)
            /\ UNCHANGED sig
       ELSE /\ sig' = [sig EXCEPT ![r] = s]
            /\ IF JwtRejected(s)
               THEN Respond(r, RedirectToAuthorize)
               ELSE Goto(r, "get_access")
    /\ UNCHANGED <<redis, token_data, access_expired, new_token_data, log>>
    /\ UNCHANGED cachevars

\* Lines 33-58: read the credential, check the signature.
verify_endpoint(r) ==
    \E token \in Credentials, s \in SigResults : VerifyRequest(r, token, s)

\* Lines 61-77: what verify_endpoint does with the result of cache.get_token.
OutcomeMutRefreshFirst(token, data, expired) ==
    IF data = NoToken THEN "redirect"
    ELSE IF expired THEN "refresh"
    ELSE IF data.access_token # token THEN "error"
    ELSE "ok"

OutcomeMutAlwaysRefresh(token, data, expired) ==
    IF data = NoToken THEN "redirect"
    ELSE IF data.access_token # token THEN "error"
    ELSE "refresh"

OutcomeMutNeverRefresh(token, data, expired) ==
    IF data = NoToken THEN "redirect"
    ELSE IF data.access_token # token THEN "error"
    ELSE "ok"

OutcomeMutMissIsError(token, data, expired) ==
    IF data = NoToken THEN "error"
    ELSE IF data.access_token # token THEN "error"
    ELSE IF expired THEN "refresh"
    ELSE "ok"

Outcome(token, data, expired) ==
    IF data = NoToken THEN "redirect"
    ELSE IF data.access_token # token THEN "error"
    ELSE IF expired THEN "refresh"
    ELSE "ok"

\* cache.get_token returned (data, expired): lines 60-98 up to the next await.
GotToken(r, data, expired) ==
    /\ token_data' = [token_data EXCEPT ![r] = data]
    /\ access_expired' = [access_expired EXCEPT ![r] = expired]
    /\ LET o == Outcome(access_token[r], data, expired) IN
        CASE o = "redirect" -> Respond(r, RedirectToAuthorize)
          [] o = "error" -> Respond(r, CorruptionError)
          [] o = "refresh" -> Goto(r, "refresh_token")
          [] o = "ok" -> Respond(r, Result(NoneStr))

\* cache.get_token, line 37: value = await redis.get(f"access_{key}")
get_token_access(r) ==
    /\ pc[r] = "get_access"
    /\ Logged(r, GetEvent(AccessName(access_token[r])))
    /\ LET value == RedisGet(redis, AccessName(access_token[r])) IN
        IF value = NoneValue
        THEN /\ Goto(r, "get_refresh")
             /\ access_expired' = [access_expired EXCEPT ![r] = TRUE]
             /\ UNCHANGED token_data
        ELSE GotToken(r, TokenData(value), FALSE)
    /\ UNCHANGED <<redis, endpoint, access_token, sig, new_token_data>>
    /\ UNCHANGED cachevars

\* cache.get_token, line 45: value = await redis.get(f"refresh_{key}")
get_token_refresh(r) ==
    /\ pc[r] = "get_refresh"
    /\ Logged(r, GetEvent(RefreshName(access_token[r])))
    /\ LET value == RedisGet(redis, RefreshName(access_token[r])) IN
        IF value = NoneValue
        THEN GotToken(r, NoToken, TRUE)
        ELSE GotToken(r, TokenData(value), access_expired[r])
    /\ UNCHANGED <<redis, endpoint, access_token, sig, new_token_data>>
    /\ UNCHANGED cachevars

\* Lines 82-88: the refresh failed (new_token_data is None).
RefreshFailedMutRetry(r) ==
    /\ new_token_data' = [new_token_data EXCEPT ![r] = NoToken]
    /\ Goto(r, "refresh_token")
    /\ UNCHANGED redis

RefreshFailedMutEvict(r) ==
    /\ new_token_data' = [new_token_data EXCEPT ![r] = NoToken]
    /\ Respond(r, RedirectToAuthorize)
    /\ redis' = [redis EXCEPT ![AccessName(access_token[r])] = Absent,
                              ![RefreshName(access_token[r])] = Absent]

RefreshFailed(r) ==
    /\ new_token_data' = [new_token_data EXCEPT ![r] = NoToken]
    /\ Respond(r, RedirectToAuthorize)
    /\ UNCHANGED redis

\* Line 79 when the refresh succeeded: on to cache.save_token (line 91).
RefreshSucceeded(r, t) ==
    /\ new_token_data' = [new_token_data EXCEPT ![r] = t]
    /\ Goto(r, "save_access")
    /\ UNCHANGED redis

RefreshCallMutSingleFlight(r, renewed) ==
    /\ pc[r] = "refresh_token"
    /\ \A q \in DOMAIN pc \ {r} :
          ~(pc[q] \in {"save_access", "save_refresh"}
            /\ access_token[q] = access_token[r])
    /\ Logged(r, RefreshEvent(token_data[r]))
    /\ \/ RefreshFailed(r)
       \/ \E t \in renewed : RefreshSucceeded(r, t)
    /\ UNCHANGED <<endpoint, access_token, sig, token_data, access_expired>>
    /\ UNCHANGED cachevars

\* http_client.refresh_token(token_data), lines 79-88: the upstream rejects
\* the grant or renews the token with one of the tokens in renewed.
RefreshCall(r, renewed) ==
    /\ pc[r] = "refresh_token"
    /\ Logged(r, RefreshEvent(token_data[r]))
    /\ \/ RefreshFailed(r)
       \/ \E t \in renewed : RefreshSucceeded(r, t)
    /\ UNCHANGED <<endpoint, access_token, sig, token_data, access_expired>>
    /\ UNCHANGED cachevars

verify_refresh_token(r) == RefreshCall(r, IssuedTokens)

\* The key verify_endpoint saves the renewed token under (line 92).
VerifySaveKeyMutOld(r) == access_token[r]

VerifySaveKey(r) == new_token_data[r].access_token

\* The value of the cookie set on the response (line 96).
VerifyCookieMutOld(r) == access_token[r]

VerifyCookie(r) == new_token_data[r].access_token

\* cache.save_token (lines 21-25) called from line 91.
verify_save_access(r) ==
    /\ pc[r] = "save_access"
    /\ redis' = SaveAccess(redis, VerifySaveKey(r), new_token_data[r])
    /\ Logged(r, SetEventOf(redis', AccessName(VerifySaveKey(r))))
    /\ Goto(r, "save_refresh")
    /\ UNCHANGED <<endpoint, access_token, sig, token_data, access_expired,
                   new_token_data>>
    /\ UNCHANGED cachevars

\* cache.save_token (lines 26-30), then lines 95-98.
verify_save_refresh(r) ==
    /\ pc[r] = "save_refresh"
    /\ redis' = SaveRefresh(redis, VerifySaveKey(r), new_token_data[r])
    /\ Logged(r, SetEventOf(redis', RefreshName(VerifySaveKey(r))))
    /\ Respond(r, Result(VerifyCookie(r)))
    /\ UNCHANGED <<endpoint, access_token, sig, token_data, access_expired,
                   new_token_data>>
    /\ UNCHANGED cachevars

\* ---------------------------------------------------------- oidc_callback
\* What the upstream answers when it rejects a request: (status_code, content).
UpstreamErrors == {<<400, "invalid_grant">>, <<401, "unauthorized_client">>}

\* RedirectResponse(status_code=307, url=settings.home_url) with the cookie set
HomeRedirectMutNoCookie(cookie) ==
    [status_code |-> 307, url |-> "home_url", cookie |-> NoneStr, content |-> ""]

HomeRedirect(cookie) ==
    [status_code |-> 307, url |-> "home_url", cookie |-> cookie, content |-> ""]

ExchangeEvent ==
    [op |-> "get_token", name |-> <<"code", "code">>, value |-> NoneValue, ex |-> 0]

\* Lines 110-114: exchange the code at the upstream.
oidc_callback(r) ==
    /\ pc[r] = "idle"
    /\ endpoint' = [endpoint EXCEPT ![r] = "callback"]
    /\ Logged(r, ExchangeEvent)
    /\ \/ \E e \in UpstreamErrors :
          /\ new_token_data' = [new_token_data EXCEPT ![r] = NoToken]
          /\ Respond(r, [status_code |-> e[1], url |-> NoneStr,
                         cookie |-> NoneStr, content |-> e[2]])
       \/ \E t \in IssuedTokens :
          /\ new_token_data' = [new_token_data EXCEPT ![r] = t]
          /\ Goto(r, "cb_save_access")
    /\ UNCHANGED <<redis, access_token, sig, token_data, access_expired>>
    /\ UNCHANGED cachevars

\* cache.save_token (lines 21-25) called from line 116.
callback_save_access(r) ==
    /\ pc[r] = "cb_save_access"
    /\ redis' = SaveAccess(redis, new_token_data[r].access_token, new_token_data[r])
    /\ Logged(r, SetEventOf(redis', AccessName(new_token_data[r].access_token)))
    /\ Goto(r, "cb_save_refresh")
    /\ UNCHANGED <<endpoint, access_token, sig, token_data, access_expired,
                   new_token_data>>
    /\ UNCHANGED cachevars

\* cache.save_token (lines 26-30), then lines 118-123.
callback_save_refresh(r) ==
    /\ pc[r] = "cb_save_refresh"
    /\ redis' = SaveRefresh(redis, new_token_data[r].access_token, new_token_data[r])
    /\ Logged(r, SetEventOf(redis', RefreshName(new_token_data[r].access_token)))
    /\ Respond(r, HomeRedirect(new_token_data[r].access_token))
    /\ UNCHANGED <<endpoint, access_token, sig, token_data, access_expired,
                   new_token_data>>
    /\ UNCHANGED cachevars

\* ------------------------------------------------------------ environment
\* The response has been sent; the next request starts from scratch.
Finish(r) ==
    /\ pc[r] = "done"
    /\ pc' = [pc EXCEPT ![r] = "idle"]
    /\ endpoint' = [endpoint EXCEPT ![r] = "none"]
    /\ access_token' = [access_token EXCEPT ![r] = NoneStr]
    /\ sig' = [sig EXCEPT ![r] = "none"]
    /\ token_data' = [token_data EXCEPT ![r] = NoToken]
    /\ access_expired' = [access_expired EXCEPT ![r] = FALSE]
    /\ new_token_data' = [new_token_data EXCEPT ![r] = NoToken]
    /\ response' = [response EXCEPT ![r] = NoResponse]
    /\ log' = [log EXCEPT ![r] = <<>>]
    /\ UNCHANGED redis
    /\ UNCHANGED cachevars

\* One second passes: Redis expires keys.
Tick ==
    /\ \E n \in Names : redis[n] # Absent
    /\ redis' = Expire(redis)
    /\ UNCHANGED reqvars
    /\ UNCHANGED cachevars

vars == <<redis, pc, endpoint, access_token, sig, token_data, access_expired,
          new_token_data, response, log, cache_pc, saved, since_access,
          since_refresh, lookup_key, looked, seen, save_result, idem>>

Next ==
    \/ \E r \in Requests : verify_endpoint(r)
    \/ \E r \in Requests : get_token_access(r)
    \/ \E r \in Requests : get_token_refresh(r)
    \/ \E r \in Requests : verify_refresh_token(r)
    \/ \E r \in Requests : verify_save_access(r)
    \/ \E r \in Requests : verify_save_refresh(r)
    \/ \E r \in Requests : oidc_callback(r)
    \/ \E r \in Requests : callback_save_access(r)
    \/ \E r \in Requests : callback_save_refresh(r)
    \/ \E r \in Requests : Finish(r)
    \/ Tick

Spec == Init /\ [][Next]_vars

\* ------------------------------------------------------- Redis failures
\* A Redis command can raise (connection lost, timeout).  Neither get_token
\* and save_token nor the handlers catch the exception: it leaves the handler
\* and the server answers 500.
InternalServerError ==
    [status_code |-> 500, url |-> NoneStr, cookie |-> NoneStr,
     content |-> "Internal Server Error"]

\* The pc values at which a request awaits a Redis command.
RedisAwaits ==
    {"get_access", "get_refresh", "save_access", "save_refresh",
     "cb_save_access", "cb_save_refresh"}

\* The name of the key of the command request r awaits.
AwaitedName(r) ==
    CASE pc[r] = "get_access" -> AccessName(access_token[r])
      [] pc[r] = "get_refresh" -> RefreshName(access_token[r])
      [] pc[r] = "save_access" -> AccessName(VerifySaveKey(r))
      [] pc[r] = "save_refresh" -> RefreshName(VerifySaveKey(r))
      [] pc[r] = "cb_save_access" -> AccessName(new_token_data[r].access_token)
      [] pc[r] = "cb_save_refresh" -> RefreshName(new_token_data[r].access_token)

\* Entry of log for a command that raised: ex is -1.
RaisedEvent(r) ==
    [op |-> IF pc[r] \in {"get_access", "get_refresh"} THEN "get" ELSE "set",
     name |-> AwaitedName(r), value |-> NoneValue, ex |-> -1]

\* The Redis command request r awaits raises: the store is not changed, the
\* exception propagates out of the handler.
redis_raises(r) ==
    /\ pc[r] \in RedisAwaits
    /\ Logged(r, RaisedEvent(r))
    /\ Respond(r, InternalServerError)
    /\ UNCHANGED <<redis, endpoint, access_token, sig, token_data, access_expired,
                   new_token_data>>
    /\ UNCHANGED cachevars

NextFault ==
    \/ Next
    \/ \E r \in Requests : redis_raises(r)

SpecFault == Init /\ [][NextFault]_vars

\* ---------------------------------------------------------- cache client
\* A sequential client of cache.py alone: it calls save_token(t.access_token, t)
\* and get_token(key), one call at a time, while Redis time passes.
CacheTokens ==
    [access_token : AccessTokens, refresh_token : {"r1"},
     expires_in : 1..MaxTTL, refresh_expires_in : 1..MaxTTL]

\* The three results of a lookup: 1 (t, False), 2 (t, True), 3 (None, True).
Phase(data, expired) ==
    IF data = NoToken THEN 3 ELSE IF expired THEN 2 ELSE 1

Max(a, b) == IF a >= b THEN a ELSE b
Min(a, b) == IF a <= b THEN a ELSE b

\* save_token, lines 20-25.
SaveBegins(t) ==
    /\ saved' = t
    /\ since_access' = 0
    /\ since_refresh' = 0
    /\ looked' = NoLookup
    /\ seen' = 0
    /\ idem' = IF /\ t = saved /\ save_result.result = "ok"
                  /\ redis[AccessName(t.access_token)] # Absent
                  /\ redis[RefreshName(t.access_token)] # Absent
               THEN [first |-> redis, pending |-> TRUE, repeated |-> FALSE]
               ELSE NoRepeat
    /\ UNCHANGED lookup_key
    /\ UNCHANGED reqvars

\* Neither entry of key is in the store.
Fresh(key) == redis[AccessName(key)] = Absent /\ redis[RefreshName(key)] = Absent

cache_save_access(t) ==
    /\ cache_pc = "idle"
    /\ redis' = SaveAccess(redis, t.access_token, t)
    /\ save_result' = [result |-> "saving", fresh |-> Fresh(t.access_token)]
    /\ cache_pc' = "save_refresh"
    /\ SaveBegins(t)

\* save_token, lines 26-30.
cache_save_refresh ==
    /\ cache_pc = "save_refresh"
    /\ redis' = SaveRefresh(redis, saved.access_token, saved)
    /\ since_refresh' = 0
    /\ cache_pc' = "idle"
    /\ save_result' = [save_result EXCEPT !.result = "ok"]
    /\ idem' = [idem EXCEPT !.pending = FALSE, !.repeated = idem.pending]
    /\ UNCHANGED <<saved, since_access, lookup_key, looked, seen>>
    /\ UNCHANGED reqvars

\* get_token returns (data, expired): lines 48 and 50.
Returned(key, data, expired) ==
    /\ looked' = [key |-> key, data |-> data, expired |-> expired,
                  since_access |-> since_access, since_refresh |-> since_refresh,
                  phase |-> Phase(data, expired), seen |-> seen]
    /\ seen' = IF key = saved.access_token
               THEN Max(seen, Phase(data, expired)) ELSE seen
    /\ cache_pc' = "idle"

\* get_token, lines 35-39 (and line 50 on a hit).
cache_get_access(key) ==
    /\ cache_pc = "idle"
    /\ saved # NoToken
    /\ LET value == RedisGet(redis, AccessName(key)) IN
        IF value = NoneValue
        THEN /\ cache_pc' = "get_refresh"
             /\ lookup_key' = key
             /\ UNCHANGED <<looked, seen>>
        ELSE /\ Returned(key, TokenData(value), FALSE)
             /\ UNCHANGED lookup_key
    /\ UNCHANGED <<redis, saved, since_access, since_refresh, save_result, idem>>
    /\ UNCHANGED reqvars

\* get_token, lines 41-50.
cache_get_refresh ==
    /\ cache_pc = "get_refresh"
    /\ LET value == RedisGet(redis, RefreshName(lookup_key)) IN
        IF value = NoneValue
        THEN Returned(lookup_key, NoToken, TRUE)
        ELSE Returned(lookup_key, TokenData(value), TRUE)
    /\ UNCHANGED <<redis, saved, since_access, since_refresh, lookup_key,
                   save_result, idem>>
    /\ UNCHANGED reqvars

\* One second passes while the cache client is at work.
CacheTick ==
    /\ saved # NoToken
    /\ since_access < MaxTTL \/ since_refresh < MaxTTL
    /\ redis' = Expire(redis)
    /\ since_access' = Min(since_access + 1, MaxTTL)
    /\ since_refresh' = Min(since_refresh + 1, MaxTTL)
    /\ idem' = NoRepeat
    /\ UNCHANGED <<cache_pc, saved, lookup_key, looked, seen, save_result>>
    /\ UNCHANGED reqvars

NextCache ==
    \/ \E t \in CacheTokens : cache_save_access(t)
    \/ cache_save_refresh
    \/ \E key \in AccessTokens : cache_get_access(key)
    \/ cache_get_refresh
    \/ CacheTick

SpecCache == Init /\ [][NextCache]_vars

\* save_token, line 21: the first redis.set raises; nothing is written and
\* the second redis.set is never reached.
cache_save_access_raises(t) ==
    /\ cache_pc = "idle"
    /\ save_result' = [result |-> "failed", fresh |-> Fresh(t.access_token)]
    /\ SaveBegins(t)
    /\ UNCHANGED <<redis, cache_pc>>

\* save_token, line 26: the second redis.set raises; the access-keyed entry
\* stays written.
cache_save_refresh_raises ==
    /\ cache_pc = "save_refresh"
    /\ cache_pc' = "idle"
    /\ save_result' = [save_result EXCEPT !.result = "partial"]
    /\ idem' = NoRepeat
    /\ UNCHANGED <<redis, saved, since_access, since_refresh, lookup_key, looked, seen>>
    /\ UNCHANGED reqvars

\* The tokens the failing client saves: every lease pair, under one key.
FaultTokens == {t \in CacheTokens : t.access_token = "a1"}

NextCacheFault ==
    \/ \E t \in FaultTokens : cache_save_access(t)
    \/ cache_save_refresh
    \/ \E t \in FaultTokens : cache_save_access_raises(t)
    \/ cache_save_refresh_raises
    \/ \E key \in AccessTokens : cache_get_access(key)
    \/ cache_get_refresh
    \/ CacheTick

SpecCacheFault == Init /\ [][NextCacheFault]_vars

\* ------------------------------------------------ a store seeded by others
\* Redis is an external store: SpecSeeded starts from a store that already
\* holds the entries of one save_token call made under a foreign key, so that
\* a record's own access_token differs from the key it is found under.
SeedOf(key, token, both) ==
    SaveRefresh(IF both THEN SaveAccess(EmptyStore, key, token) ELSE EmptyStore,
                key, token)

SeededStores ==
    { SeedOf(c[1], c[2], c[3]) :
        c \in { d \in AccessTokens \X IssuedTokens \X BOOLEAN :
                  d[1] # d[2].access_token } }

InitSeeded ==
    /\ redis \in SeededStores
    /\ pc = [r \in Requests |-> "idle"]
    /\ endpoint = [r \in Requests |-> "none"]
    /\ access_token = [r \in Requests |-> NoneStr]
    /\ sig = [r \in Requests |-> "none"]
    /\ token_data = [r \in Requests |-> NoToken]
    /\ access_expired = [r \in Requests |-> FALSE]
    /\ new_token_data = [r \in Requests |-> NoToken]
    /\ response = [r \in Requests |-> NoResponse]
    /\ log = [r \in Requests |-> <<>>]
    /\ cache_pc = "idle"
    /\ saved = NoToken
    /\ since_access = 0
    /\ since_refresh = 0
    /\ lookup_key = NoneStr
    /\ looked = NoLookup
    /\ seen = 0
    /\ save_result = NoSave
    /\ idem = NoRepeat

SpecSeeded == InitSeeded /\ [][Next]_vars

\* ------------------------------------------------------ the refresh race
\* Two requests present the same credential a1 after its access lease has
\* lapsed; the upstream renews it with a token it has not issued before.
RaceCredential == "a1"

RaceToken == CHOOSE t \in IssuedTokens : t.access_token = RaceCredential

\* The tokens the upstream renews RaceToken with.
RenewedTokens ==
    { [access_token |-> "a2", refresh_token |-> "r2",
       expires_in |-> ShortTTL, refresh_expires_in |-> LongTTL],
      [access_token |-> "a3", refresh_token |-> "r3",
       expires_in |-> ShortTTL, refresh_expires_in |-> LongTTL] }

RECURSIVE ExpireN(_, _)
ExpireN(store, n) == IF n = 0 THEN store ELSE ExpireN(Expire(store), n - 1)

\* The store once oidc_callback has saved RaceToken and its access lease has
\* lapsed: a state Spec reaches.
RaceStore ==
    ExpireN(SaveRefresh(SaveAccess(EmptyStore, RaceCredential, RaceToken),
                        RaceCredential, RaceToken),
            RaceToken.expires_in)

InitRace ==
    /\ redis = RaceStore
    /\ pc = [r \in Requests |-> "idle"]
    /\ endpoint = [r \in Requests |-> "none"]
    /\ access_token = [r \in Requests |-> NoneStr]
    /\ sig = [r \in Requests |-> "none"]
    /\ token_data = [r \in Requests |-> NoToken]
    /\ access_expired = [r \in Requests |-> FALSE]
    /\ new_token_data = [r \in Requests |-> NoToken]
    /\ response = [r \in Requests |-> NoResponse]
    /\ log = [r \in Requests |-> <<>>]
    /\ cache_pc = "idle"
    /\ saved = NoToken
    /\ since_access = 0
    /\ since_refresh = 0
    /\ lookup_key = NoneStr
    /\ looked = NoLookup
    /\ seen = 0
    /\ save_result = NoSave
    /\ idem = NoRepeat

\* verify_endpoint for a request that carries RaceCredential.
race_verify_endpoint(r) ==
    \E s \in SigResults : VerifyRequest(r, RaceCredential, s)

\* The refresh call, renewed with a token of RenewedTokens.
race_refresh_token(r) == RefreshCall(r, RenewedTokens)

NextRace ==
    \/ \E r \in Requests : race_verify_endpoint(r)
    \/ \E r \in Requests : get_token_access(r)
    \/ \E r \in Requests : get_token_refresh(r)
    \/ \E r \in Requests : race_refresh_token(r)
    \/ \E r \in Requests : verify_save_access(r)
    \/ \E r \in Requests : verify_save_refresh(r)
    \/ \E r \in Requests : Finish(r)
    \/ Tick

SpecRace == InitRace /\ [][NextRace]_vars

\* ------------------------------------------------------------- properties
\* How many calls of kind op a request has made.
Calls(r, op) == Cardinality({i \in 1..Len(log[r]) : log[r][i].op = op})

IsVerify(r) == endpoint[r] = "verify"
IsDone(r) == pc[r] = "done"

\* The lookup of request r found a record (under either key) whose own
\* access_token is the credential.
FoundOwnRecord(r) ==
    /\ token_data[r] # NoToken
    /\ token_data[r].access_token = access_token[r]

\* C1: a verify request without a credential, or whose credential jwt.decode
\* rejects as invalid, is answered at once with the redirect to the authorize
\* URL, having made no cache read, no cache write and no refresh call.
C1_RejectedWithoutCacheIO ==
    \A r \in Requests :
        (IsVerify(r) /\ (Missing(access_token[r]) \/ sig[r] = "Invalid")) =>
            /\ IsDone(r)
            /\ response[r] = RedirectToAuthorize
            /\ log[r] = <<>>

C1_Witness ==
    /\ IsVerify("req1") /\ IsDone("req1") /\ Missing(access_token["req1"])
    /\ IsVerify("req2") /\ IsDone("req2") /\ sig["req2"] = "Invalid"
    /\ access_token["req2"] \in AccessTokens
    /\ redis[AccessName(access_token["req2"])] # Absent

\* C2: a verify request with a valid signature whose lookup hit the
\* access-keyed entry, holding the credential's own record, ends 200 with no
\* cookie set, no refresh call and no cache write.
C2_FreshHitAuthenticated ==
    \A r \in Requests :
        (/\ IsVerify(r) /\ IsDone(r)
         /\ sig[r] = "Valid"
         /\ FoundOwnRecord(r) /\ ~access_expired[r]) =>
            /\ response[r] = Result(NoneStr)
            /\ Calls(r, "refresh") = 0
            /\ Calls(r, "set") = 0

C2_Witness ==
    \E r \in Requests :
        /\ IsVerify(r) /\ IsDone(r) /\ sig[r] = "Valid"
        /\ FoundOwnRecord(r) /\ ~access_expired[r]
        /\ log[r] = <<GetEvent(AccessName(access_token[r]))>>
        /\ response[r].status_code = 200

\* C3: a verify request whose lookup missed the access-keyed entry and found
\* the credential's own record under the refresh key calls the refresh
\* exactly once: not yet while it waits at the call, once from then on.
C3_RefreshExactlyOnce ==
    \A r \in Requests :
        (IsVerify(r) /\ FoundOwnRecord(r) /\ access_expired[r]) =>
            /\ sig[r] \in {"Valid", "Expired"}
            /\ pc[r] \in {"refresh_token", "save_access", "save_refresh", "done"}
            /\ Calls(r, "refresh") = IF pc[r] = "refresh_token" THEN 0 ELSE 1

C3_Witness ==
    /\ IsVerify("req1") /\ IsDone("req1") /\ sig["req1"] = "Valid"
    /\ FoundOwnRecord("req1") /\ access_expired["req1"]
    /\ Calls("req1", "refresh") = 1
    /\ IsVerify("req2") /\ IsDone("req2") /\ sig["req2"] = "Expired"
    /\ FoundOwnRecord("req2") /\ access_expired["req2"]
    /\ Calls("req2", "refresh") = 1

\* C4: a verify request whose credential passed jwt.decode (valid or expired)
\* and whose lookup found neither entry ends with the redirect, not 500 and
\* not 200, without a refresh call.
C4_MissRedirects ==
    \A r \in Requests :
        (/\ IsVerify(r) /\ sig[r] \in {"Valid", "Expired"}
         /\ Calls(r, "get") = 2 /\ token_data[r] = NoToken) =>
            /\ IsDone(r)
            /\ response[r] = RedirectToAuthorize
            /\ Calls(r, "refresh") = 0

C4_Witness ==
    \E r \in Requests :
        /\ IsVerify(r) /\ IsDone(r) /\ sig[r] = "Valid"
        /\ log[r] = <<GetEvent(AccessName(access_token[r])),
                      GetEvent(RefreshName(access_token[r]))>>
        /\ token_data[r] = NoToken
        /\ response[r].status_code = 307

\* C5: when the record the lookup returns holds another access_token than
\* the credential, verify answers 500, whatever access_expired is, without a
\* refresh call and without a cache write.
C5_CorruptionIsServerError ==
    \A r \in Requests :
        (/\ IsVerify(r)
         /\ token_data[r] # NoToken
         /\ token_data[r].access_token # access_token[r]) =>
            /\ IsDone(r)
            /\ response[r] = CorruptionError
            /\ Calls(r, "refresh") = 0
            /\ Calls(r, "set") = 0

C5_Witness ==
    /\ IsVerify("req1") /\ IsDone("req1")
    /\ token_data["req1"] # NoToken
    /\ token_data["req1"].access_token # access_token["req1"]
    /\ access_expired["req1"]
    /\ response["req1"].status_code = 500
    /\ IsVerify("req2") /\ IsDone("req2")
    /\ token_data["req2"] # NoToken
    /\ token_data["req2"].access_token # access_token["req2"]
    /\ ~access_expired["req2"]
    /\ response["req2"].status_code = 500

\* The two writes save_token(new.access_token, new) makes.
SaveEvents(new) ==
    << SetEvent(AccessName(new.access_token), model_dump(new), new.expires_in),
       SetEvent(RefreshName(new.access_token), model_dump(new),
                new.refresh_expires_in) >>

\* C6: when the refresh succeeded, no response exists before both entries of
\* the new token are written under the new token's own access_token; the
\* response is then 200 and its cookie is the access_token of the saved token.
C6_RefreshedTokenSavedThenCookie ==
    \A r \in Requests :
        (IsVerify(r) /\ new_token_data[r] # NoToken) =>
            /\ ~IsDone(r) => response[r] = NoResponse
            /\ IsDone(r) =>
                /\ SubSeq(log[r], 4, 5) = SaveEvents(new_token_data[r])
                /\ Len(log[r]) = 5
                /\ response[r] = Result(new_token_data[r].access_token)
                /\ TokenData(log[r][5].value).access_token = response[r].cookie

C6_Witness ==
    \E r \in Requests :
        /\ IsVerify(r) /\ IsDone(r)
        /\ new_token_data[r] # NoToken
        /\ new_token_data[r].access_token # access_token[r]
        /\ response[r].cookie = new_token_data[r].access_token
        /\ redis[RefreshName(new_token_data[r].access_token)].value
               = model_dump(new_token_data[r])

\* The step in which the refresh call of request r comes back failed.
RefreshFailsFor(r) ==
    /\ pc[r] = "refresh_token"
    /\ Calls(r, "refresh")' = 1
    /\ new_token_data'[r] = NoToken

\* C7: when the refresh call fails for a token whose access lease lapsed and
\* whose refresh-keyed record was found, the request ends with the redirect
\* to the authorize URL, the step leaves the store as it was, and the request
\* has written nothing to the cache.
C7_RefreshFailureLeavesCache ==
    [][\A r \in Requests :
        RefreshFailsFor(r) =>
            /\ access_expired[r] /\ FoundOwnRecord(r)
            /\ pc'[r] = "done"
            /\ response'[r] = RedirectToAuthorize
            /\ redis' = redis
            /\ Calls(r, "set")' = 0]_vars

C7_Witness ==
    \E r \in Requests :
        /\ IsVerify(r) /\ IsDone(r)
        /\ FoundOwnRecord(r) /\ access_expired[r]
        /\ Calls(r, "refresh") = 1
        /\ new_token_data[r] = NoToken
        /\ response[r] = RedirectToAuthorize
        /\ redis[RefreshName(access_token[r])].value = model_dump(token_data[r])

LookedUpSaved == looked.key # NoneStr /\ looked.key = saved.access_token

\* C9: for a token t saved with expires_in < refresh_expires_in, a later
\* lookup of t.access_token returns (t, False) while the access TTL runs,
\* (t, True) once it has lapsed and the refresh TTL still runs, (None, True)
\* once both have lapsed; and no lookup returns an earlier phase than one
\* already returned since the save.
C9_LookupFollowsTheLeases ==
    (LookedUpSaved /\ saved.expires_in < saved.refresh_expires_in) =>
        /\ looked.since_access < saved.expires_in =>
              (looked.data = saved /\ ~looked.expired)
        /\ (/\ looked.since_access >= saved.expires_in
            /\ looked.since_refresh < saved.refresh_expires_in) =>
              (looked.data = saved /\ looked.expired)
        /\ looked.since_refresh >= saved.refresh_expires_in =>
              (looked.data = NoToken /\ looked.expired)
        /\ looked.phase >= looked.seen

C9_Witness ==
    /\ LookedUpSaved
    /\ saved.expires_in < saved.refresh_expires_in
    /\ looked.data = NoToken /\ looked.expired
    /\ looked.seen = 2

\* C10: save_token(t.access_token, t) followed by get_token(t.access_token)
\* with no second elapsed in between returns (t, False), t with every field
\* as it was saved.
C10_SaveLookupRoundTrip ==
    (LookedUpSaved /\ looked.since_access = 0) =>
        /\ looked.data = saved
        /\ \A i \in 1..Len(FieldNames) :
              looked.data[FieldNames[i]] = saved[FieldNames[i]]
        /\ ~looked.expired

C10_Witness ==
    /\ LookedUpSaved
    /\ looked.since_access = 0
    /\ looked.data = saved
    /\ saved.refresh_expires_in < saved.expires_in
    /\ ~looked.expired

\* C11: in every state reached by verify and oidc_callback requests, each
\* entry present in the store, access-keyed or refresh-keyed, holds the
\* TokenData whose access_token is the suffix of its key, and every write a
\* request has made went to a key of the written token's own access_token.
C11_EntriesHoldTheirOwnToken ==
    /\ \A n \in Names :
          redis[n] # Absent => TokenData(redis[n].value).access_token = n[2]
    /\ \A r \in Requests : \A i \in 1..Len(log[r]) :
          log[r][i].op = "set" =>
              TokenData(log[r][i].value).access_token = log[r][i].name[2]

C11_Witness ==
    /\ redis[RefreshName("a1")] # Absent
    /\ redis[AccessName("a2")] # Absent
    /\ IsDone("req1") /\ endpoint["req1"] = "callback" /\ Calls("req1", "set") = 2
    /\ IsDone("req2") /\ IsVerify("req2") /\ Calls("req2", "set") = 2
    /\ new_token_data["req2"].access_token # access_token["req2"]

\* Both requests refreshed the same credential, got different new tokens and
\* have saved them and answered.
BothRenewed(r, q) ==
    /\ r # q
    /\ IsVerify(r) /\ IsDone(r) /\ IsVerify(q) /\ IsDone(q)
    /\ access_token[r] = access_token[q]
    /\ new_token_data[r] # NoToken /\ new_token_data[q] # NoToken
    /\ new_token_data[r].access_token # new_token_data[q].access_token

\* Both entries of token t are in the store, with t as their value.
HasRecords(t) ==
    /\ redis[AccessName(t.access_token)].value = model_dump(t)
    /\ redis[RefreshName(t.access_token)].value = model_dump(t)

\* C12 as claimed: the last save wins, so of two different tokens that two
\* requests got for the same credential at most one keeps its records.
C12_LastSaveWins ==
    \A r, q \in Requests :
        BothRenewed(r, q) =>
            ~(HasRecords(new_token_data[r]) /\ HasRecords(new_token_data[q]))

\* C12 as amended: the two saves go to the keys of their own tokens and do
\* not collide.  An entry that is present changes only when a second passes
\* in Redis or when a request saves, under that very key, the token the key
\* names; so a credential loses its records only by the lapse of its TTLs.
C12_SavesDoNotCollide ==
    [][\A n \in Names :
        (redis[n] # Absent /\ redis'[n] # redis[n]) =>
            \/ redis' = Expire(redis)
            \/ \E r \in Requests :
                /\ pc[r] \in {"save_access", "save_refresh",
                             "cb_save_access", "cb_save_refresh"}
                /\ new_token_data[r].access_token = n[2]
                /\ redis'[n].value = model_dump(new_token_data[r])
                /\ redis'[n].ttl >= 1]_vars

C12_Witness ==
    \E r, q \in Requests :
        /\ BothRenewed(r, q)
        /\ access_token[r] = RaceCredential
        /\ new_token_data[r].access_token # RaceCredential
        /\ new_token_data[q].access_token # RaceCredential
        /\ HasRecords(new_token_data[r])
        /\ HasRecords(new_token_data[q])

\* The next step of the handler of request r.
HandlerStep(r) ==
    \/ get_token_access(r)
    \/ get_token_refresh(r)
    \/ race_refresh_token(r)
    \/ verify_save_access(r)
    \/ verify_save_refresh(r)

\* C13: nothing coalesces or locks concurrent refreshes.  A verify request
\* under way can always take its next step, whatever the other request does;
\* two requests that found the same credential's record with the access lease
\* lapsed both call the refresh, with the same refresh_token; and a request
\* ends 200 or 307, never 500.
C13_ConcurrentRefreshesBothProceed ==
    \A r \in Requests :
        IsVerify(r) =>
            /\ IsDone(r) => response[r].status_code \in {200, 307}
            /\ ~IsDone(r) => ENABLED HandlerStep(r)
            /\ \A q \in Requests :
                (/\ IsVerify(q) /\ access_token[q] = access_token[r]
                 /\ Calls(r, "refresh") = 1 /\ Calls(q, "refresh") = 1) =>
                    /\ log[r][3] = log[q][3]
                    /\ log[r][3] = RefreshEvent(token_data[r])

C13_Witness ==
    /\ IsVerify("req1") /\ IsVerify("req2")
    /\ access_token["req1"] = access_token["req2"]
    /\ access_expired["req1"] /\ access_expired["req2"]
    /\ pc["req1"] = "save_access" /\ pc["req2"] = "save_access"
    /\ log["req1"][3] = RefreshEvent(RaceToken)
    /\ log["req2"][3] = RefreshEvent(RaceToken)
    /\ new_token_data["req1"] # new_token_data["req2"]

\* A Redis read of request r's lookup raised.
LookupRaised(r) ==
    \E i \in 1..Len(log[r]) : log[r][i].op = "get" /\ log[r][i].ex = -1

\* C14: a verify request whose cache lookup fails is answered like a miss,
\* with the redirect to the authorize URL, not with 500 and not with 200,
\* and the lookup is not tried again.
C14_LookupFailureIsAMiss ==
    \A r \in Requests :
        (IsVerify(r) /\ IsDone(r) /\ LookupRaised(r)) =>
            /\ response[r] = RedirectToAuthorize
            /\ Calls(r, "get") <= 2

\* C15: save is idempotent.  When save_token(t) is called again right after
\* save_token(t), with both entries of t still in the store, the store holds
\* the same keys with the same values as before the second call; only the
\* TTLs of the two entries of t change, back to t's two lifespans.
C15_SaveIsIdempotent ==
    idem.repeated =>
        /\ \A n \in Names : redis[n].value = idem.first[n].value
        /\ \A n \in Names \ {AccessName(saved.access_token),
                              RefreshName(saved.access_token)} :
                redis[n] = idem.first[n]
        /\ redis[AccessName(saved.access_token)].ttl = saved.expires_in
        /\ redis[RefreshName(saved.access_token)].ttl = saved.refresh_expires_in

C15_Witness ==
    /\ idem.repeated
    /\ redis # idem.first
    /\ \E n \in Names \ {AccessName(saved.access_token),
                          RefreshName(saved.access_token)} : redis[n] # Absent

IsCallback(r) == endpoint[r] = "callback"

\* C16: oidc_callback.  A successful exchange is followed by the two writes of
\* the token under its own access_token, and only then by the response, the
\* redirect home whose cookie is that access_token.  A failed exchange is
\* answered with the upstream status and body, with no write and no cookie.
C16_CallbackSavesThenSetsCookie ==
    \A r \in Requests :
        IsCallback(r) =>
            /\ ~IsDone(r) => response[r] = NoResponse
            /\ (IsDone(r) /\ new_token_data[r] # NoToken) =>
                   /\ log[r] = <<ExchangeEvent>> \o SaveEvents(new_token_data[r])
                   /\ response[r].status_code = 307
                   /\ response[r].url = "home_url"
                   /\ response[r].cookie = new_token_data[r].access_token
            /\ (IsDone(r) /\ new_token_data[r] = NoToken) =>
                   /\ log[r] = <<ExchangeEvent>>
                   /\ <<response[r].status_code, response[r].content>> \in UpstreamErrors
                   /\ response[r].cookie = NoneStr
                   /\ response[r].url = NoneStr

C16_Witness ==
    /\ IsCallback("req1") /\ IsDone("req1")
    /\ new_token_data["req1"] # NoToken
    /\ response["req1"].cookie = "a2"
    /\ redis[AccessName("a2")].value = model_dump(new_token_data["req1"])
    /\ redis[RefreshName("a2")].value = model_dump(new_token_data["req1"])
    /\ IsCallback("req2") /\ IsDone("req2")
    /\ new_token_data["req2"] = NoToken
    /\ response["req2"].status_code = 400

\* The kinds of the calls of request r, in the order it made them.
OpsOf(r) == [i \in 1..Len(log[r]) |-> log[r][i].op]

\* The calls of a verify request that goes all the way: the two reads of the
\* lookup, the refresh, the two writes of the save.
StepOrder == <<"get", "get", "refresh", "set", "set">>

\* C17: the steps of one verify request are ordered and happen at most once.
\* Its calls are always a prefix of read access entry, read refresh entry,
\* refresh, write access entry, write refresh entry; a read has happened only
\* once jwt.decode has returned Valid or Expired; the refresh only after a
\* lookup that returned the credential's own record with access_expired; a
\* write only after a refresh that returned a new token.
C17_StepsInOrderAtMostOnce ==
    \A r \in Requests :
        IsVerify(r) =>
            /\ Len(log[r]) <= Len(StepOrder)
            /\ OpsOf(r) = SubSeq(StepOrder, 1, Len(log[r]))
            /\ Len(log[r]) >= 1 =>
                   /\ sig[r] \in {"Valid", "Expired"}
                   /\ log[r][1] = GetEvent(AccessName(access_token[r]))
            /\ Len(log[r]) >= 2 => log[r][2] = GetEvent(RefreshName(access_token[r]))
            /\ Calls(r, "refresh") >= 1 => FoundOwnRecord(r) /\ access_expired[r]
            /\ Calls(r, "set") >= 1 => new_token_data[r] # NoToken
            /\ pc[r] \in {"get_refresh", "refresh_token"} => Calls(r, "refresh") = 0
            /\ pc[r] \in {"save_access"} => Calls(r, "set") = 0

C17_Witness ==
    /\ IsVerify("req1") /\ IsDone("req1") /\ sig["req1"] = "Expired"
    /\ OpsOf("req1") = StepOrder
    /\ response["req1"].status_code = 200
    /\ IsVerify("req2") /\ IsDone("req2") /\ sig["req2"] = "Valid"
    /\ OpsOf("req2") = <<"get">>
    /\ response["req2"].status_code = 200

\* The cache client's last save_token call wrote the access-keyed entry and
\* its second redis.set raised.
PartialSave == save_result.result = "partial"

\* C18 as stated: after a partial save of t, a lookup of t.access_token
\* returns (t, False) while the access TTL runs and (None, True) afterwards,
\* and verify_endpoint answers that result with 200 or the redirect.
C18_PartialSaveLooksFreshOrAbsent ==
    (LookedUpSaved /\ PartialSave) =>
        /\ looked.since_access < saved.expires_in =>
               looked.data = saved /\ ~looked.expired
        /\ looked.since_access >= saved.expires_in =>
               looked.data = NoToken /\ looked.expired
        /\ Outcome(looked.key, looked.data, looked.expired) \in {"ok", "redirect"}

\* C18, amended: after a partial save of t, a lookup of t.access_token
\* returns (t, False) while the access TTL runs; afterwards it returns
\* (None, True) when the key held no entry before the save, and otherwise
\* may return the refresh-keyed record an earlier save left under the key,
\* with access_expired.  verify_endpoint never answers such a result with
\* 500.  While the access TTL of the last save runs and its first write has
\* happened the access-keyed entry is stored, so the refresh-keyed record of
\* that save is never stored alone; a save whose first write raised into an
\* empty key stores nothing.
C18_PartialSaveTolerated ==
    /\ (LookedUpSaved /\ PartialSave) =>
           /\ looked.since_access < saved.expires_in =>
                  looked.data = saved /\ ~looked.expired
           /\ (looked.since_access >= saved.expires_in /\ save_result.fresh) =>
                  looked.data = NoToken /\ looked.expired
           /\ looked.since_access >= saved.expires_in => looked.expired
           /\ Outcome(looked.key, looked.data, looked.expired) # "error"
           /\ save_result.fresh =>
                  Outcome(looked.key, looked.data, looked.expired) \in {"ok", "redirect"}
    /\ (save_result.result \in {"saving", "ok", "partial"}
        /\ since_access < saved.expires_in) =>
           redis[AccessName(saved.access_token)].value = model_dump(saved)
    /\ (save_result.result = "failed" /\ save_result.fresh) =>
           /\ redis[AccessName(saved.access_token)] = Absent
           /\ redis[RefreshName(saved.access_token)] = Absent

C18_Witness ==
    /\ LookedUpSaved /\ PartialSave /\ save_result.fresh
    /\ looked.data = NoToken /\ looked.expired
    /\ seen = 3
    /\ looked.seen = 1
    /\ saved.expires_in < saved.refresh_expires_in

\* This step is a step of the verify handler of request r.
VerifyStepOf(r) == pc'[r] # pc[r] /\ endpoint'[r] = "verify"

\* C19: the frame of verify_endpoint.  A step of a verify request changes an
\* entry of the store only as one of the two writes of its save, and then
\* only the entry of that write under the new token's access_token, which
\* receives the new token; every other entry, those of the presented
\* credential among them when the new access_token differs, stays as it was.
\* A request whose lookup reads the refresh-keyed record of its credential
\* goes on to the refresh call, and makes it with that record's
\* refresh_token.
C19_VerifyOnlyWritesTheNewKey ==
    [][\A r \in Requests :
        VerifyStepOf(r) =>
            /\ \A n \in Names :
                   redis'[n] # redis[n] =>
                       /\ \/ pc[r] = "save_access"
                             /\ n = AccessName(new_token_data[r].access_token)
                          \/ pc[r] = "save_refresh"
                             /\ n = RefreshName(new_token_data[r].access_token)
                       /\ redis'[n].value = model_dump(new_token_data[r])
            /\ (/\ pc[r] = "get_refresh"
                /\ redis[RefreshName(access_token[r])] # Absent) =>
                   /\ pc'[r] = "refresh_token"
                   /\ model_dump(token_data'[r]) = redis[RefreshName(access_token[r])].value
            /\ pc[r] = "refresh_token" =>
                   log'[r] = Append(log[r], RefreshEvent(token_data[r]))]_vars

C19_Witness ==
    /\ IsVerify("req1") /\ IsDone("req1")
    /\ access_token["req1"] = "a1"
    /\ new_token_data["req1"] # NoToken
    /\ new_token_data["req1"].access_token = "a2"
    /\ HasRecords(new_token_data["req1"])
    /\ redis[RefreshName("a1")].value = model_dump(token_data["req1"])
    /\ IsVerify("req2") /\ access_token["req2"] = "a1"
    /\ token_data["req2"] = token_data["req1"]
    /\ Len(log["req2"]) = 3
    /\ log["req2"][3] = RefreshEvent(token_data["req1"])

\* The invariant of spec section 3 on a token's two lifespans.
Conforming(t) == t.refresh_expires_in >= t.expires_in

\* Request q is between the two writes of a save under key.
SavingBy(q, key) ==
    /\ pc[q] \in {"save_refresh", "cb_save_refresh"}
    /\ new_token_data[q].access_token = key

\* This step is the access-key read of the lookup of verify request r.
AccessRead(r) == pc[r] = "get_access" /\ pc'[r] # pc[r]

SettledAccessEntry(key) ==
    /\ redis[AccessName(key)] # Absent
    /\ Conforming(TokenData(redis[AccessName(key)].value))
    /\ \A q \in Requests : ~SavingBy(q, key)

====
